---- MODULE Spec2Model ----
(***************************************************************************)
(* Model of the size-constrained GIF search of emote_pipeline:             *)
(* apng_to_gif_alpha_test.py (Animation, reduce_frames, save_as_gif,       *)
(* compress_to_target_size).                                               *)
(*                                                                         *)
(* Spec        one call of compress_to_target_size, one step per action    *)
(* FairSpec    the same with the progress of the single thread             *)
(* ReduceSpec  reduce_frames applied to arbitrary inputs                   *)
(* GifSpec     save_as_gif applied to arbitrary candidates                 *)
(* PipelineSpec    the orchestrator emote_pipeline.py around the tools     *)
(* ConcurrentSpec  two calls of compress_to_target_size on one output path *)
(***************************************************************************)
EXTENDS Integers, Sequences, FiniteSets, TLC

VARIABLES animation, target_size_bytes, min_resolution,
          skip_factor, colors, size,
          processed_frames, processed_durations, compressed_anim,
          storage, encoder_calls, pc, error,
          heap, alpha_threshold, palette_img, pal_frames,
          args, stage, current_file, stage_runs, exit_status,
          peer

\* the images in memory and the locals of save_as_gif
gifvars == <<heap, alpha_threshold, palette_img, pal_frames>>

\* the orchestrator (emote_pipeline.py)
pipevars == <<args, stage, current_file, stage_runs, exit_status>>

vars == <<animation, target_size_bytes, min_resolution,
          skip_factor, colors, size,
          processed_frames, processed_durations, compressed_anim,
          storage, encoder_calls, pc, error, gifvars, pipevars, peer>>

(* ---------------------------- bounds ---------------------------------- *)
MaxFrames == 8
MaxVaried == 2
MaxTarget == 2
Overshoot == 1
MaxFactor == 5
MaxReduceLen == 4
MaxUniformLen == 10
MaxGifFrames == 2
MaxPixels == 2
MaxPalette == 3
MaxPipelineFrames == 2
MaxConcurrentFrames == 2

(* ------------------------ program constants --------------------------- *)
DefaultDuration == 40
DefaultMinResolution == 1000
DefaultAlphaThreshold == 10
DefaultSize == 1000
DefaultPad == 80
StartSkipFactor == 1
StartColors == 256
MinColors == 64
ColorStep == 32

(* ------------------------------ helpers ------------------------------- *)
Max(a, b) == IF a >= b THEN a ELSE b
Min(a, b) == IF a <= b THEN a ELSE b

RECURSIVE SumSeq(_)
SumSeq(s) == IF s = <<>> THEN 0 ELSE Head(s) + SumSeq(Tail(s))

SliceInclusive(s, i, j) ==
    LET lo == Min(i, Len(s))
        hi == Min(j + 1, Len(s))
    IN  IF hi <= lo THEN <<>> ELSE [x \in 1..(hi - lo) |-> s[lo + x]]

\* s[i:j] of Python for 0 <= i and 0 <= j, 0-based and end-exclusive,
\* clipped to the length of s
Slice(s, i, j) ==
    LET lo == Min(i, Len(s))
        hi == Min(j, Len(s))
    IN  IF hi <= lo THEN <<>> ELSE [x \in 1..(hi - lo) |-> s[lo + x]]

Range0Floor(n, step) == [x \in 1..(n \div step) |-> (x - 1) * step]

\* range(0, n, step) of Python for step >= 1, as a sequence
Range0(n, step) ==
    LET cnt == (n + step - 1) \div step
    IN  [x \in 1..cnt |-> (x - 1) * step]

StrideLeading(s, step) == SubSeq(s, 1, (Len(s) + step - 1) \div step)

\* s[::step] of Python for step >= 1
Stride(s, step) ==
    LET idx == Range0(Len(s), step)
    IN  [x \in 1..Len(idx) |-> s[idx[x] + 1]]

(* ---------------------------- reduce_frames --------------------------- *)
reduce_frames_unsummed(frames, durations, factor) ==
    [reduced_frames |-> Stride(frames, factor),
     reduced_durations |-> Stride(durations, factor)]

reduce_frames(frames, durations, factor) ==
    LET starts == Range0(Len(durations), factor)
    IN  [reduced_frames |-> Stride(frames, factor),
         reduced_durations |->
             [x \in 1..Len(starts) |->
                 SumSeq(Slice(durations, starts[x], starts[x] + factor))]]

(* ------------------------------ Animation ----------------------------- *)
Animation(frames, durations, loop, sz) ==
    [frames |-> frames, durations |-> durations, loop |-> loop, size |-> sz]

\* the value of a name that is not bound yet
NoAnimation == Animation(<<>>, <<>>, 0, <<0, 0>>)

\* a decoded frame: its position in the source file and its pixel size
Frame(i, sz) == [id |-> i, size |-> sz]

(* ------------------------------ storage ------------------------------- *)
OutputPath == [kind |-> "output", skip |-> 0, colors |-> 0]
TempPathIsOutput(k, c) == OutputPath

TempPath(k, c) == [kind |-> "temp", skip |-> k, colors |-> c]

\* an encoded GIF as it lies on storage
GifData(anim, c, bytes, whole) ==
    [anim |-> anim, colors |-> c, bytes |-> bytes, whole |-> whole]

Exists(st, p) == \E f \in st : f.path = p
Read(st, p) == (CHOOSE f \in st : f.path = p).data
Write(st, p, d) == {f \in st : f.path # p} \cup {[path |-> p, data |-> d]}
UnlinkNothing(st, p) == st

Unlink(st, p) == {f \in st : f.path # p}
Replace(st, src, dst) ==
    {f \in st : f.path # src /\ f.path # dst}
        \cup {[path |-> dst, data |-> Read(st, src)]}

TempFiles(st) == {f \in st : f.path.kind = "temp"}

(* ------------------------------- images ------------------------------ *)
\* An image object holds its channels: rgb and a for mode RGBA, the palette
\* indexes p for mode P.  heap is the sequence of the image objects alive;
\* the id of a Frame is its position in heap.
RGBAImage(rgb, a) == [mode |-> "RGBA", rgb |-> rgb, a |-> a, p |-> <<>>]
PImage(p) == [mode |-> "P", rgb |-> <<>>, a |-> <<>>, p |-> p]

RGBColors == {0, 1}
Alphas == {5, 10, 255}

\* the colour-to-index maps a quantizer to a palette of N - 1 colours may
\* apply (lines 67 and 78, colors = N)
Quantizers(N) == [RGBColors -> 0..(N - 2)]

\* lines 62-63, 67, 71-72, 78: the RGB channels quantized, a new image
Quantize(img, q) == PImage([j \in 1..Len(img.rgb) |-> q[img.rgb[j]]])

\* quantize returns a new object
AllocQuantized(h, frame_ref, q) == Append(h, Quantize(h[frame_ref], q))

TransparentAtOrBelow(alpha_val, t) == alpha_val <= t

\* line 86
Transparent(alpha_val, t) == alpha_val < t

\* lines 82-87
Overwrite(p_data, a_data, N, t) ==
    [j \in 1..Len(p_data) |->
        IF Transparent(a_data[j], t) THEN N - 1 ELSE p_data[j]]

\* line 89
PutData(h, ref, p_data) == [h EXCEPT ![ref].p = p_data]

IndexFrameInPlace(h, frame_ref, pal_ref, first, q, N, t) ==
    [heap |-> PutData(h, frame_ref,
                      Overwrite(Quantize(h[frame_ref], q).p,
                                h[frame_ref].a, N, t)),
     p_frame |-> frame_ref]

\* lines 70-90, one iteration: the frame at frame_ref is indexed into
\* p_frame, which is palette_img for the first frame and a new object for
\* every other one
IndexFrame(h, frame_ref, pal_ref, first, q, N, t) ==
    LET h1 == IF first THEN h ELSE AllocQuantized(h, frame_ref, q)
        p_frame == IF first THEN pal_ref ELSE Len(h1)
    IN  [heap |-> PutData(h1, p_frame,
                          Overwrite(h1[p_frame].p, h[frame_ref].a, N, t)),
         p_frame |-> p_frame]

\* lines 70-90, the iterations from the i-th frame on; each iteration works
\* on the heap the one before it left (r is that iteration's result)
RECURSIVE IndexFrames(_, _, _, _, _, _, _)
IndexFrames(h, frames, i, pal_ref, q, N, t) ==
    IF i > Len(frames)
       THEN h
       ELSE CHOOSE hn \in
                {IndexFrames(r.heap, frames, i + 1, pal_ref, q, N, t) :
                    r \in {IndexFrame(h, frames[i].id, pal_ref, i = 1,
                                      q, N, t)}} : TRUE

\* lines 51-90 in one piece: the heap when save_as_gif is about to save
IndexedHeap(h, anim, N, t, q) ==
    LET h0 == AllocQuantized(h, anim.frames[1].id, q)
    IN  IndexFrames(h0, anim.frames, 1, Len(h0), q, N, t)

(* ------------------------------- inputs ------------------------------- *)
Resolutions ==
    {DefaultMinResolution - 200, DefaultMinResolution,
     DefaultMinResolution + 200}
Durations == {DefaultDuration, DefaultDuration + 30}
Loops == {0, 2}

\* duration lists of length n: the first MaxVaried entries vary, the others
\* carry the decoder's default
DurationSeqs(n) ==
    {d \in [1..n -> Durations] :
        \A i \in 1..n : i > MaxVaried => d[i] = DefaultDuration}

\* what load_animation returns: every frame has the canvas size, which is
\* the size of frame 0; one duration per frame
load_animation(n, d, loop, sz) ==
    Animation([i \in 1..n |-> Frame(i, sz)], d, loop, sz)

\* the callers' animations: decoded ones (at least one frame) and, built
\* directly from the dataclass, the one without frames
SourceAnimations ==
    UNION {{IF n = 0 THEN Animation(<<>>, <<>>, loop, <<w, h>>)
                     ELSE load_animation(n, d, loop, <<w, h>>) :
                d \in DurationSeqs(n), loop \in Loops,
                w \in Resolutions, h \in Resolutions} : n \in 0..MaxFrames}

\* the pixels of the i-th decoded frame of a source of the search
SourceImage(i) ==
    RGBAImage(<<i % 2, (i + 1) % 2>>, <<IF i % 2 = 1 THEN 5 ELSE 255, 10>>)

SourceHeap(anim) == [i \in 1..Len(anim.frames) |-> SourceImage(i)]

\* the locals of a second call of compress_to_target_size, running in
\* another process on the same storage; here, no such call
NoPeer ==
    [animation |-> NoAnimation, target_size_bytes |-> 0, min_resolution |-> 0,
     skip_factor |-> 0, colors |-> 0, size |-> 0, encoder_calls |-> <<>>,
     pc |-> "none", error |-> "none"]

NoPath == [kind |-> "none", skip |-> 0, colors |-> 0]
NoArgs ==
    [skip_outline |-> FALSE, skip_resize |-> FALSE, skip_gif |-> FALSE,
     keep_temp |-> FALSE, size |-> DefaultSize, pad |-> DefaultPad]

\* no orchestrator around the call
NoPipeline ==
    /\ args = NoArgs
    /\ stage = "none"
    /\ current_file = NoPath
    /\ stage_runs = <<>>
    /\ exit_status = 0

\* the sizes the encoder may report for a candidate when the budget is t
EncodedSizes(t) == (t - 1)..(t + Overshoot)

\* a file that lay at the output path before the call, larger than any budget
StaleGif == GifData(NoAnimation, 0, MaxTarget + Overshoot + 1, TRUE)

(* ------------------------ compress_to_target_size --------------------- *)
Init ==
    /\ animation \in SourceAnimations
    /\ target_size_bytes \in 1..MaxTarget
    /\ min_resolution = DefaultMinResolution
    /\ skip_factor = StartSkipFactor
    /\ colors = StartColors
    /\ size = 0
    /\ processed_frames = <<>>
    /\ processed_durations = <<>>
    /\ compressed_anim = NoAnimation
    /\ storage \in {{}, {[path |-> OutputPath, data |-> StaleGif]}}
    /\ encoder_calls = <<>>
    /\ pc = "check"
    /\ error = "none"
    /\ heap = SourceHeap(animation)
    /\ alpha_threshold = DefaultAlphaThreshold
    /\ palette_img = 0
    /\ pal_frames = <<>>
    /\ NoPipeline
    /\ peer = NoPeer

ResolutionBelowMinimumBoth ==
    /\ animation.size[1] < min_resolution
    /\ animation.size[2] < min_resolution

\* line 112
ResolutionBelowMinimum ==
    \/ animation.size[1] < min_resolution
    \/ animation.size[2] < min_resolution

\* line 112-113: the precondition
CheckResolution ==
    /\ pc = "check"
    /\ IF ResolutionBelowMinimum
          THEN /\ pc' = "raised"
               /\ error' = "ResolutionTooLow"
          ELSE /\ pc' = "loop"
               /\ error' = error
    /\ UNCHANGED <<animation, target_size_bytes, min_resolution, skip_factor,
                   colors, size, processed_frames, processed_durations,
                   compressed_anim, storage, encoder_calls>>
    /\ UNCHANGED <<gifvars, pipevars>>
    /\ UNCHANGED peer

\* line 115: the loop condition
LoopCondition == skip_factor <= Len(animation.frames) /\ colors >= MinColors

\* lines 118-122
Processed ==
    IF skip_factor > 1
       THEN reduce_frames(animation.frames, animation.durations, skip_factor)
       ELSE [reduced_frames |-> animation.frames,
             reduced_durations |-> animation.durations]

CandidateLoopForever ==
    Animation(Processed.reduced_frames, Processed.reduced_durations,
              0, Processed.reduced_frames[1].size)

\* lines 124-129
Candidate ==
    Animation(Processed.reduced_frames, Processed.reduced_durations,
              animation.loop, Processed.reduced_frames[1].size)

\* line 131: what save_as_gif leaves in memory for its caller; the images it
\* created are garbage once it is left.  The quantizer's choice of indexes
\* only shows in those, so one quantizer stands for all.
HeapAfterSaveAsGif ==
    SubSeq(IndexedHeap(heap, Candidate, colors, alpha_threshold,
                       [c \in RGBColors |-> 0]),
           1, Len(heap))

\* one invocation of save_as_gif by the controller, as observed from outside
EncoderCall(result, raised) ==
    [skip_factor |-> skip_factor, colors |-> colors,
     path |-> TempPath(skip_factor, colors), anim |-> Candidate,
     result |-> result, raised |-> raised]

\* lines 116-131, save_as_gif returning the size of the file it wrote
EncodeCandidate ==
    /\ pc = "loop"
    /\ LoopCondition
    /\ \E bytes \in EncodedSizes(target_size_bytes) :
          /\ size' = bytes
          /\ storage' = Write(storage, TempPath(skip_factor, colors),
                              GifData(Candidate, colors, bytes, TRUE))
          /\ encoder_calls' = Append(encoder_calls, EncoderCall(bytes, FALSE))
    /\ processed_frames' = Processed.reduced_frames
    /\ processed_durations' = Processed.reduced_durations
    /\ compressed_anim' = Candidate
    /\ pc' = "encoded"
    /\ UNCHANGED <<animation, target_size_bytes, min_resolution, skip_factor,
                   colors, error>>
    /\ heap' = HeapAfterSaveAsGif
    /\ UNCHANGED <<alpha_threshold, palette_img, pal_frames, pipevars>>
    /\ UNCHANGED peer

EncoderRaisesThenNextCandidate ==
    /\ pc = "loop"
    /\ LoopCondition
    /\ storage' = storage
    /\ encoder_calls' = Append(encoder_calls, EncoderCall(0, TRUE))
    /\ processed_frames' = Processed.reduced_frames
    /\ processed_durations' = Processed.reduced_durations
    /\ compressed_anim' = Candidate
    /\ skip_factor' = skip_factor + 1
    /\ colors' = Max(MinColors, colors - ColorStep)
    /\ pc' = "loop"
    /\ error' = "EncodingFailure"
    /\ UNCHANGED <<animation, target_size_bytes, min_resolution, size>>
    /\ heap' = HeapAfterSaveAsGif
    /\ UNCHANGED <<alpha_threshold, palette_img, pal_frames, pipevars>>
    /\ UNCHANGED peer

\* lines 116-131, save_as_gif raising: before the file is opened, or with
\* the file already created and left behind by the encoder
EncoderRaises ==
    /\ pc = "loop"
    /\ LoopCondition
    /\ \E left_behind \in BOOLEAN :
          storage' = IF left_behind
                        THEN Write(storage, TempPath(skip_factor, colors),
                                   GifData(Candidate, colors, 0, FALSE))
                        ELSE storage
    /\ encoder_calls' = Append(encoder_calls, EncoderCall(0, TRUE))
    /\ processed_frames' = Processed.reduced_frames
    /\ processed_durations' = Processed.reduced_durations
    /\ compressed_anim' = Candidate
    /\ pc' = "raised"
    /\ error' = "EncodingFailure"
    /\ UNCHANGED <<animation, target_size_bytes, min_resolution, skip_factor,
                   colors, size>>
    /\ heap' = HeapAfterSaveAsGif
    /\ UNCHANGED <<alpha_threshold, palette_img, pal_frames, pipevars>>
    /\ UNCHANGED peer

MeetsBudgetOffByOne(bytes, budget) == bytes <= budget + 1

MeetsBudgetExclusive(bytes, budget) == bytes < budget

\* line 133
MeetsBudget(bytes, budget) == bytes <= budget

\* lines 133-135; Path.replace raises FileNotFoundError when the file it is
\* to rename is gone
Promote ==
    /\ pc = "encoded"
    /\ MeetsBudget(size, target_size_bytes)
    /\ IF Exists(storage, TempPath(skip_factor, colors))
          THEN /\ storage' = Replace(storage, TempPath(skip_factor, colors),
                                     OutputPath)
               /\ pc' = "returned"
               /\ error' = error
          ELSE /\ storage' = storage
               /\ pc' = "raised"
               /\ error' = "FileNotFoundError"
    /\ UNCHANGED <<animation, target_size_bytes, min_resolution, skip_factor,
                   colors, size, processed_frames, processed_durations,
                   compressed_anim, encoder_calls>>
    /\ UNCHANGED <<gifvars, pipevars>>
    /\ UNCHANGED peer

NextSkipFactorWrapping(k) == IF k >= 2 THEN 1 ELSE k + 1

NextSkipFactorByTwo(k) == k + 2

\* line 139
NextSkipFactor(k) == k + 1

NextColorsNoFloor(c) == c - ColorStep

NextColorsKept(c) == c

NextColorsSmallStep(c) == Max(MinColors, c - 16)

\* line 140
NextColors(c) == Max(MinColors, c - ColorStep)

\* lines 137-140; Path.unlink raises FileNotFoundError when the file is gone
Reject ==
    /\ pc = "encoded"
    /\ ~MeetsBudget(size, target_size_bytes)
    /\ IF Exists(storage, TempPath(skip_factor, colors))
          THEN /\ storage' = Unlink(storage, TempPath(skip_factor, colors))
               /\ skip_factor' = NextSkipFactor(skip_factor)
               /\ colors' = NextColors(colors)
               /\ pc' = "loop"
               /\ error' = error
          ELSE /\ storage' = storage
               /\ skip_factor' = skip_factor
               /\ colors' = colors
               /\ pc' = "raised"
               /\ error' = "FileNotFoundError"
    /\ UNCHANGED <<animation, target_size_bytes, min_resolution, size,
                   processed_frames, processed_durations, compressed_anim,
                   encoder_calls>>
    /\ UNCHANGED <<gifvars, pipevars>>
    /\ UNCHANGED peer

\* line 142
ScheduleExhausted ==
    /\ pc = "loop"
    /\ ~LoopCondition
    /\ pc' = "raised"
    /\ error' = "CompressionBudgetUnreachable"
    /\ UNCHANGED <<animation, target_size_bytes, min_resolution, skip_factor,
                   colors, size, processed_frames, processed_durations,
                   compressed_anim, storage, encoder_calls>>
    /\ UNCHANGED <<gifvars, pipevars>>
    /\ UNCHANGED peer

Next ==
    \/ CheckResolution
    \/ EncodeCandidate
    \/ EncoderRaises
    \/ Promote
    \/ Reject
    \/ ScheduleExhausted

Spec == Init /\ [][Next]_vars

\* one thread runs the call to its end; every encoder call comes back
FairSpec == Spec /\ WF_vars(Next)

Terminated == pc \in {"returned", "raised"}

(* ------------------------- reduce_frames alone ------------------------ *)
\* the inputs of reduce_frames: every duration list up to MaxReduceLen and
\* the lists of the decoder's default duration up to MaxUniformLen
ReduceInputs ==
    {load_animation(n, SubSeq(d, 1, n), 0,
                    <<DefaultMinResolution, DefaultMinResolution>>) :
        n \in 0..MaxReduceLen, d \in [1..MaxReduceLen -> Durations]}
    \cup
    {load_animation(n, [i \in 1..n |-> DefaultDuration], 0,
                    <<DefaultMinResolution, DefaultMinResolution>>) :
        n \in 0..MaxUniformLen}

ReduceInit ==
    /\ animation \in ReduceInputs
    /\ skip_factor \in 1..MaxFactor
    /\ target_size_bytes = 1
    /\ min_resolution = DefaultMinResolution
    /\ colors = StartColors
    /\ size = 0
    /\ processed_frames = <<>>
    /\ processed_durations = <<>>
    /\ compressed_anim = NoAnimation
    /\ storage = {}
    /\ encoder_calls = <<>>
    /\ pc = "reduce"
    /\ error = "none"
    /\ heap = SourceHeap(animation)
    /\ alpha_threshold = DefaultAlphaThreshold
    /\ palette_img = 0
    /\ pal_frames = <<>>
    /\ NoPipeline
    /\ peer = NoPeer

\* line 119, for any factor
ReduceCall ==
    /\ pc = "reduce"
    /\ LET r == reduce_frames(animation.frames, animation.durations,
                              skip_factor)
       IN  /\ processed_frames' = r.reduced_frames
           /\ processed_durations' = r.reduced_durations
    /\ pc' = "reduced"
    /\ UNCHANGED <<animation, target_size_bytes, min_resolution, skip_factor,
                   colors, size, compressed_anim, storage, encoder_calls,
                   error>>
    /\ UNCHANGED <<gifvars, pipevars>>
    /\ UNCHANGED peer

ReduceNext == ReduceCall

ReduceSpec == ReduceInit /\ [][ReduceNext]_vars

(* --------------------------- save_as_gif alone ------------------------ *)
Thresholds == {0, DefaultAlphaThreshold, 255}

\* the images of a candidate of n frames: any alpha in every pixel
GifHeaps(n) ==
    {[i \in 1..n |-> RGBAImage([j \in 1..MaxPixels |-> (i + j) % 2], a[i])] :
        a \in [1..n -> [1..MaxPixels -> Alphas]]}

GifInit ==
    /\ \E n \in 0..MaxGifFrames :
          /\ heap \in GifHeaps(n)
          /\ compressed_anim =
                 IF n = 0
                    THEN Animation(<<>>, <<>>, 0, <<MaxPixels, 1>>)
                    ELSE load_animation(n, [i \in 1..n |-> DefaultDuration],
                                        0, <<MaxPixels, 1>>)
    /\ animation = compressed_anim
    /\ colors \in 2..MaxPalette
    /\ alpha_threshold \in Thresholds
    /\ target_size_bytes = 1
    /\ min_resolution = 1
    /\ skip_factor = StartSkipFactor
    /\ size = 0
    /\ processed_frames = compressed_anim.frames
    /\ processed_durations = compressed_anim.durations
    /\ storage = {}
    /\ encoder_calls = <<>>
    /\ pc = "gif_palette"
    /\ error = "none"
    /\ palette_img = 0
    /\ pal_frames = <<>>
    /\ NoPipeline
    /\ peer = NoPeer

\* lines 51-67: the palette image is quantized from the first frame;
\* all_pixels[0] of an animation without frames is an IndexError
GifBuildPalette ==
    /\ pc = "gif_palette"
    /\ IF compressed_anim.frames = <<>>
          THEN /\ pc' = "raised"
               /\ error' = "IndexError"
               /\ UNCHANGED <<heap, palette_img>>
          ELSE /\ \E q \in Quantizers(colors) :
                     heap' = AllocQuantized(heap,
                                 compressed_anim.frames[1].id, q)
               /\ palette_img' = Len(heap')
               /\ pc' = "gif_frames"
               /\ error' = error
    /\ UNCHANGED <<animation, target_size_bytes, min_resolution, skip_factor,
                   colors, size, processed_frames, processed_durations,
                   compressed_anim, storage, encoder_calls,
                   alpha_threshold, pal_frames, pipevars>>
    /\ UNCHANGED peer

\* lines 70-90, one iteration of the loop
GifIndexFrame ==
    /\ pc = "gif_frames"
    /\ Len(pal_frames) < Len(compressed_anim.frames)
    /\ \E q \in Quantizers(colors) :
          LET i == Len(pal_frames) + 1
              r == IndexFrame(heap, compressed_anim.frames[i].id,
                              palette_img, i = 1, q, colors, alpha_threshold)
          IN  /\ heap' = r.heap
              /\ pal_frames' = Append(pal_frames, r.p_frame)
    /\ UNCHANGED <<animation, target_size_bytes, min_resolution, skip_factor,
                   colors, size, processed_frames, processed_durations,
                   compressed_anim, storage, encoder_calls, pc, error,
                   alpha_threshold, palette_img, pipevars>>
    /\ UNCHANGED peer

\* lines 92-104
GifSave ==
    /\ pc = "gif_frames"
    /\ Len(pal_frames) = Len(compressed_anim.frames)
    /\ \E bytes \in EncodedSizes(target_size_bytes) :
          /\ size' = bytes
          /\ storage' = Write(storage, TempPath(skip_factor, colors),
                              GifData(compressed_anim, colors, bytes, TRUE))
    /\ pc' = "gif_done"
    /\ UNCHANGED <<animation, target_size_bytes, min_resolution, skip_factor,
                   colors, processed_frames, processed_durations,
                   compressed_anim, encoder_calls, error, gifvars, pipevars>>
    /\ UNCHANGED peer

GifNext ==
    \/ GifBuildPalette
    \/ GifIndexFrame
    \/ GifSave

GifSpec == GifInit /\ [][GifNext]_vars

(* ------------------------ emote_pipeline.py: main --------------------- *)
InputPath == [kind |-> "input", skip |-> 0, colors |-> 0]
OutlinedPath == [kind |-> "outlined", skip |-> 0, colors |-> 0]
ResizedPath == [kind |-> "resized", skip |-> 0, colors |-> 0]

\* an animated PNG on storage
PngData(anim) == [anim |-> anim, colors |-> 0, bytes |-> 0, whole |-> TRUE]

\* -s of the orchestrator: the documented Discord example and the default
TargetSizes == {512, DefaultSize}
NativeSizes == {DefaultSize - 2 * DefaultPad, DefaultSize}

PipelineArgs ==
    [skip_outline : BOOLEAN, skip_resize : BOOLEAN, skip_gif : BOOLEAN,
     keep_temp : BOOLEAN, size : TargetSizes, pad : {DefaultPad}]

PipelineInputs ==
    {load_animation(n, [i \in 1..n |-> DefaultDuration], 0, <<w, w>>) :
        n \in 1..MaxPipelineFrames, w \in NativeSizes}

PipelineInit ==
    /\ args \in PipelineArgs
    /\ stage = "start"
    /\ current_file = NoPath
    /\ stage_runs = <<>>
    /\ exit_status = 0
    /\ storage \in {{}} \cup {{[path |-> InputPath, data |-> PngData(a)]} :
                                 a \in PipelineInputs}
    /\ target_size_bytes \in 1..MaxTarget
    /\ animation = NoAnimation
    /\ min_resolution = DefaultMinResolution
    /\ skip_factor = StartSkipFactor
    /\ colors = StartColors
    /\ size = 0
    /\ processed_frames = <<>>
    /\ processed_durations = <<>>
    /\ compressed_anim = NoAnimation
    /\ encoder_calls = <<>>
    /\ pc = "idle"
    /\ error = "none"
    /\ heap = <<>>
    /\ alpha_threshold = DefaultAlphaThreshold
    /\ palette_img = 0
    /\ pal_frames = <<>>
    /\ peer = NoPeer

searchvars ==
    <<animation, target_size_bytes, min_resolution, skip_factor, colors, size,
      processed_frames, processed_durations, compressed_anim, encoder_calls,
      pc, error, gifvars>>

StageRun(name, input, output, rc) ==
    [name |-> name, input |-> input, output |-> output, rc |-> rc]

StageFailedNever(rc) == FALSE

\* run_command, line 29
StageFailed(rc) == rc # 0

\* the exit codes a stage's process may end with: its tools can fail on any
\* input, and it cannot succeed without its input file
ExitCodes(input) == IF Exists(storage, input) THEN {0, 1} ELSE {1}

\* lines 99-128
ValidateInput ==
    /\ stage = "start"
    /\ IF Exists(storage, InputPath)
          THEN /\ stage' = "outline"
               /\ current_file' = InputPath
               /\ exit_status' = exit_status
          ELSE /\ stage' = "exited"
               /\ exit_status' = 1
               /\ current_file' = current_file
    /\ UNCHANGED <<args, stage_runs, storage, searchvars>>
    /\ UNCHANGED peer

\* what outline_gen.py writes: as many frames and durations, on a canvas
\* of the size asked for with -s
Outlined(anim, s) ==
    load_animation(Len(anim.frames), anim.durations, anim.loop, <<s, s>>)

\* what image_resize.py writes (resize_animation)
Resized(anim, s) ==
    load_animation(Len(anim.frames), anim.durations, anim.loop, <<s, s>>)

\* lines 130-151 with run_command
OutlineStage ==
    /\ stage = "outline"
    /\ IF args.skip_outline
          THEN /\ stage' = "resize"
               /\ UNCHANGED <<current_file, stage_runs, storage, exit_status>>
          ELSE \E rc \in ExitCodes(current_file) :
                  LET src == Read(storage, current_file).anim
                      padded_size == src.size[1] + 2 * args.pad
                  IN  /\ stage_runs' = Append(stage_runs,
                             StageRun("outline", current_file,
                                      OutlinedPath, rc))
                      /\ IF StageFailed(rc)
                            THEN /\ stage' = "exited"
                                 /\ exit_status' = 1
                                 /\ UNCHANGED <<current_file, storage>>
                            ELSE /\ stage' = "resize"
                                 /\ current_file' = OutlinedPath
                                 /\ exit_status' = exit_status
                                 /\ storage' =
                                       IF rc = 0
                                          THEN Write(storage, OutlinedPath,
                                                 PngData(Outlined(src,
                                                     padded_size)))
                                          ELSE storage
    /\ UNCHANGED <<args, searchvars>>
    /\ UNCHANGED peer

\* lines 153-163 with run_command
ResizeStage ==
    /\ stage = "resize"
    /\ IF args.skip_resize
          THEN /\ stage' = "gif_start"
               /\ UNCHANGED <<current_file, stage_runs, storage, exit_status>>
          ELSE \E rc \in ExitCodes(current_file) :
                  /\ stage_runs' = Append(stage_runs,
                         StageRun("resize", current_file, ResizedPath, rc))
                  /\ IF StageFailed(rc)
                        THEN /\ stage' = "exited"
                             /\ exit_status' = 1
                             /\ UNCHANGED <<current_file, storage>>
                        ELSE /\ stage' = "gif_start"
                             /\ current_file' = ResizedPath
                             /\ exit_status' = exit_status
                             /\ storage' =
                                   IF rc = 0
                                      THEN Write(storage, ResizedPath,
                                             PngData(Resized(
                                                 Read(storage,
                                                      current_file).anim,
                                                 args.size)))
                                      ELSE storage
    /\ UNCHANGED <<args, searchvars>>
    /\ UNCHANGED peer

\* lines 165-179: the GIF tool is started with -i, -o and --max-size only,
\* or the current file is copied to the output.  The tool's main (lines
\* 145-179 of apng_to_gif_alpha_test.py) loads the animation and calls
\* compress_to_target_size with its own defaults for the other options.
GifStageStart ==
    /\ stage = "gif_start"
    /\ IF args.skip_gif
          THEN /\ stage' = "cleanup"
               /\ storage' =
                     IF Exists(storage, current_file)
                        THEN Write(storage, OutputPath,
                                   Read(storage, current_file))
                        ELSE storage
               /\ UNCHANGED <<stage_runs, searchvars>>
          ELSE /\ stage' = "gif"
               /\ stage_runs' = Append(stage_runs,
                      StageRun("gif", current_file, OutputPath, -1))
               /\ storage' = storage
               /\ IF Exists(storage, current_file)
                     THEN /\ animation' = Read(storage, current_file).anim
                          /\ heap' = SourceHeap(animation')
                          /\ pc' = "check"
                          /\ error' = error
                     ELSE /\ pc' = "raised"
                          /\ error' = "FileNotFoundError"
                          /\ UNCHANGED <<animation, heap>>
               /\ min_resolution' = DefaultMinResolution
               /\ alpha_threshold' = DefaultAlphaThreshold
               /\ UNCHANGED <<target_size_bytes, skip_factor, colors, size,
                              processed_frames, processed_durations,
                              compressed_anim, encoder_calls, palette_img,
                              pal_frames>>
    /\ UNCHANGED <<args, current_file, exit_status>>
    /\ UNCHANGED peer

\* run_command, lines 27-33, for the GIF tool: it exits 0 when
\* compress_to_target_size returned and non-zero when it raised
GifStageExit ==
    /\ stage = "gif"
    /\ Terminated
    /\ LET rc == IF pc = "returned" THEN 0 ELSE 1
           n == Len(stage_runs)
       IN  /\ stage_runs' = [stage_runs EXCEPT ![n].rc = rc]
           /\ IF StageFailed(rc)
                 THEN /\ stage' = "exited"
                      /\ exit_status' = 1
                 ELSE /\ stage' = "cleanup"
                      /\ exit_status' = exit_status
    /\ UNCHANGED <<args, current_file, storage, searchvars>>
    /\ UNCHANGED peer

\* lines 181-199
Cleanup ==
    /\ stage = "cleanup"
    /\ storage' =
          IF args.keep_temp
             THEN storage
             ELSE Unlink(Unlink(storage, OutlinedPath), ResizedPath)
    /\ stage' = "complete"
    /\ UNCHANGED <<args, current_file, stage_runs, exit_status, searchvars>>
    /\ UNCHANGED peer

PipelineNext ==
    \/ ValidateInput
    \/ OutlineStage
    \/ ResizeStage
    \/ GifStageStart
    \/ CheckResolution
    \/ EncodeCandidate
    \/ EncoderRaises
    \/ Promote
    \/ Reject
    \/ ScheduleExhausted
    \/ GifStageExit
    \/ Cleanup

PipelineSpec == PipelineInit /\ [][PipelineNext]_vars

(* ------------- two calls of compress_to_target_size at once ----------- *)
\* Two processes run compress_to_target_size with the same output_path on
\* one file system.  The first has the variables of Spec, the second the
\* record peer; storage is what they share.  A step is one file operation
\* of one of them together with the computation that leads to it.

\* the locals of the first call and all that the second cannot reach
runvars ==
    <<animation, target_size_bytes, min_resolution, skip_factor, colors, size,
      processed_frames, processed_durations, compressed_anim, encoder_calls,
      pc, error, gifvars, pipevars>>

\* decoded animations of the default size and frame duration
ConcurrentSources ==
    {load_animation(n, [i \in 1..n |-> DefaultDuration], loop,
                    <<DefaultSize, DefaultSize>>) :
        n \in 1..MaxConcurrentFrames, loop \in Loops}

\* lines 108-109 for both calls
ConcurrentInit ==
    /\ animation \in ConcurrentSources
    /\ target_size_bytes \in 1..MaxTarget
    /\ min_resolution = DefaultMinResolution
    /\ skip_factor = StartSkipFactor
    /\ colors = StartColors
    /\ size = 0
    /\ processed_frames = <<>>
    /\ processed_durations = <<>>
    /\ compressed_anim = NoAnimation
    /\ storage = {}
    /\ encoder_calls = <<>>
    /\ pc = "check"
    /\ error = "none"
    /\ heap = SourceHeap(animation)
    /\ alpha_threshold = DefaultAlphaThreshold
    /\ palette_img = 0
    /\ pal_frames = <<>>
    /\ NoPipeline
    /\ peer \in {[animation |-> a, target_size_bytes |-> t,
                  min_resolution |-> DefaultMinResolution,
                  skip_factor |-> StartSkipFactor, colors |-> StartColors,
                  size |-> 0, encoder_calls |-> <<>>,
                  pc |-> "check", error |-> "none"] :
                    a \in ConcurrentSources, t \in 1..MaxTarget}

\* line 112-113
PeerCheckResolution ==
    /\ peer.pc = "check"
    /\ peer' = IF \/ peer.animation.size[1] < peer.min_resolution
                  \/ peer.animation.size[2] < peer.min_resolution
                  THEN [peer EXCEPT !.pc = "raised",
                                    !.error = "ResolutionTooLow"]
                  ELSE [peer EXCEPT !.pc = "loop"]
    /\ UNCHANGED <<storage, runvars>>

\* line 115
PeerLoopCondition ==
    /\ peer.skip_factor <= Len(peer.animation.frames)
    /\ peer.colors >= MinColors

\* lines 118-122
PeerProcessed ==
    IF peer.skip_factor > 1
       THEN reduce_frames(peer.animation.frames, peer.animation.durations,
                          peer.skip_factor)
       ELSE [reduced_frames |-> peer.animation.frames,
             reduced_durations |-> peer.animation.durations]

\* lines 124-129
PeerCandidate ==
    Animation(PeerProcessed.reduced_frames, PeerProcessed.reduced_durations,
              peer.animation.loop, PeerProcessed.reduced_frames[1].size)

PeerEncoderCall(result, raised) ==
    [skip_factor |-> peer.skip_factor, colors |-> peer.colors,
     path |-> TempPath(peer.skip_factor, peer.colors), anim |-> PeerCandidate,
     result |-> result, raised |-> raised]

\* lines 116-131, save_as_gif returning
PeerEncodeCandidate ==
    /\ peer.pc = "loop"
    /\ PeerLoopCondition
    /\ \E bytes \in EncodedSizes(peer.target_size_bytes) :
          /\ storage' = Write(storage, TempPath(peer.skip_factor, peer.colors),
                              GifData(PeerCandidate, peer.colors, bytes, TRUE))
          /\ peer' = [peer EXCEPT
                         !.size = bytes,
                         !.encoder_calls =
                             Append(@, PeerEncoderCall(bytes, FALSE)),
                         !.pc = "encoded"]
    /\ UNCHANGED runvars

\* lines 116-131, save_as_gif raising
PeerEncoderRaises ==
    /\ peer.pc = "loop"
    /\ PeerLoopCondition
    /\ \E left_behind \in BOOLEAN :
          storage' = IF left_behind
                        THEN Write(storage,
                                   TempPath(peer.skip_factor, peer.colors),
                                   GifData(PeerCandidate, peer.colors, 0,
                                           FALSE))
                        ELSE storage
    /\ peer' = [peer EXCEPT
                   !.encoder_calls = Append(@, PeerEncoderCall(0, TRUE)),
                   !.pc = "raised",
                   !.error = "EncodingFailure"]
    /\ UNCHANGED runvars

\* lines 133-135
PeerPromote ==
    /\ peer.pc = "encoded"
    /\ MeetsBudget(peer.size, peer.target_size_bytes)
    /\ IF Exists(storage, TempPath(peer.skip_factor, peer.colors))
          THEN /\ storage' = Replace(storage,
                                     TempPath(peer.skip_factor, peer.colors),
                                     OutputPath)
               /\ peer' = [peer EXCEPT !.pc = "returned"]
          ELSE /\ storage' = storage
               /\ peer' = [peer EXCEPT !.pc = "raised",
                                       !.error = "FileNotFoundError"]
    /\ UNCHANGED runvars

\* lines 137-140
PeerReject ==
    /\ peer.pc = "encoded"
    /\ ~MeetsBudget(peer.size, peer.target_size_bytes)
    /\ IF Exists(storage, TempPath(peer.skip_factor, peer.colors))
          THEN /\ storage' = Unlink(storage,
                                    TempPath(peer.skip_factor, peer.colors))
               /\ peer' = [peer EXCEPT
                              !.skip_factor = NextSkipFactor(@),
                              !.colors = NextColors(@),
                              !.pc = "loop"]
          ELSE /\ storage' = storage
               /\ peer' = [peer EXCEPT !.pc = "raised",
                                       !.error = "FileNotFoundError"]
    /\ UNCHANGED runvars

\* line 142
PeerScheduleExhausted ==
    /\ peer.pc = "loop"
    /\ ~PeerLoopCondition
    /\ peer' = [peer EXCEPT !.pc = "raised",
                            !.error = "CompressionBudgetUnreachable"]
    /\ UNCHANGED <<storage, runvars>>

ConcurrentNext ==
    \/ CheckResolution
    \/ EncodeCandidate
    \/ EncoderRaises
    \/ Promote
    \/ Reject
    \/ ScheduleExhausted
    \/ PeerCheckResolution
    \/ PeerEncodeCandidate
    \/ PeerEncoderRaises
    \/ PeerPromote
    \/ PeerReject
    \/ PeerScheduleExhausted

ConcurrentSpec == ConcurrentInit /\ [][ConcurrentNext]_vars

(* ------------------------------ properties --------------------------- *)
Calls == Len(encoder_calls)
FrameCount == Len(animation.frames)
LastCall == encoder_calls[Calls]
OverBudget(c) == ~c.raised /\ c.result > target_size_bytes
ScheduledColors(i) ==
    IF 256 - 32 * (i - 1) >= 64 THEN 256 - 32 * (i - 1) ELSE 64

\* C1: a successful return leaves at the output path the encoded candidate
\* of the last encoder call, and its size is at most target_size_bytes.
C1_ReturnWithinBudget ==
    pc = "returned" =>
        /\ Exists(storage, OutputPath)
        /\ Read(storage, OutputPath).bytes <= target_size_bytes
        /\ Read(storage, OutputPath).bytes = LastCall.result
        /\ Read(storage, OutputPath).anim = LastCall.anim

C1_Witness ==
    /\ pc = "returned"
    /\ Calls >= 2
    /\ Read(storage, OutputPath).bytes = target_size_bytes

\* C2: every run of the search reaches a return or a raise, and at no time
\* have more candidates been encoded than the source has frames.
C2_Terminates ==
    /\ <>Terminated
    /\ [](Calls <= FrameCount)

C2_Witness ==
    /\ Terminated
    /\ FrameCount = MaxFrames
    /\ Calls = FrameCount

\* C3: on return the accepted candidate is the last encoder call, its size
\* is <= the budget, every earlier call was over the budget, its file has
\* been moved from the temporary path to the output path, and no step of
\* the search follows.
C3_FirstFitAccepted ==
    pc = "returned" =>
        /\ Calls >= 1
        /\ ~LastCall.raised
        /\ LastCall.result <= target_size_bytes
        /\ \A i \in 1..(Calls - 1) : OverBudget(encoder_calls[i])
        /\ \A i \in 1..Calls : encoder_calls[i].skip_factor = i
        /\ Exists(storage, OutputPath)
        /\ Read(storage, OutputPath) =
               GifData(LastCall.anim, LastCall.colors, LastCall.result, TRUE)
        /\ ~Exists(storage, LastCall.path)
        /\ ~ENABLED Next

C3_Witness ==
    /\ pc = "returned"
    /\ Calls >= 3
    /\ LastCall.result = target_size_bytes

\* C4: the i-th encoded candidate has skip_factor i and palette size
\* max(64, 256 - 32*(i-1)); the controller's own pair is (1, 256) before
\* the first candidate and the next pair of the schedule after each reject.
C4_Schedule ==
    /\ \A i \in 1..Calls :
          /\ encoder_calls[i].skip_factor = i
          /\ encoder_calls[i].colors = ScheduledColors(i)
    /\ pc = "check" => skip_factor = 1 /\ colors = 256
    /\ pc = "loop" =>
          /\ skip_factor = Calls + 1
          /\ colors = ScheduledColors(Calls + 1)
    /\ pc = "encoded" =>
          /\ skip_factor = Calls
          /\ colors = ScheduledColors(Calls)

C4_Witness ==
    /\ pc = "encoded"
    /\ Calls = 8
    /\ LastCall.colors = 64
    /\ encoder_calls[7].colors = 64
    /\ encoder_calls[6].colors = 96

\* C5: a search that passed the resolution check and ended with every
\* candidate encoded and over the budget ended in
\* CompressionBudgetUnreachable after exactly frame_count encoder calls;
\* and that error is raised in no other way.
C5_ExhaustedAfterFrameCount ==
    /\ (/\ Terminated
        /\ FrameCount >= 1
        /\ animation.size[1] >= min_resolution
        /\ animation.size[2] >= min_resolution
        /\ \A i \in 1..Calls : OverBudget(encoder_calls[i]))
           => /\ pc = "raised"
              /\ error = "CompressionBudgetUnreachable"
              /\ Calls = FrameCount
    /\ (error = "CompressionBudgetUnreachable" /\ FrameCount >= 1)
           => /\ Calls = FrameCount
              /\ \A i \in 1..Calls : OverBudget(encoder_calls[i])

C5_Witness ==
    /\ error = "CompressionBudgetUnreachable"
    /\ FrameCount = MaxFrames
    /\ Calls = MaxFrames

\* C6: with the width or the height below min_resolution the first step
\* raises ResolutionTooLow, having encoded nothing and left storage as it
\* was; with both at or above min_resolution that error never occurs.
C6_ResolutionTooLow ==
    /\ [][(pc = "check" /\ (\/ animation.size[1] < min_resolution
                            \/ animation.size[2] < min_resolution))
            => /\ pc' = "raised"
               /\ error' = "ResolutionTooLow"
               /\ storage' = storage
               /\ encoder_calls' = <<>>]_vars
    /\ [](error = "ResolutionTooLow"
            => /\ (\/ animation.size[1] < min_resolution
                   \/ animation.size[2] < min_resolution)
               /\ pc = "raised"
               /\ encoder_calls = <<>>
               /\ TempFiles(storage) = {})
    /\ []((/\ animation.size[1] >= min_resolution
           /\ animation.size[2] >= min_resolution)
            => error # "ResolutionTooLow")

C6_Witness ==
    /\ error = "ResolutionTooLow"
    /\ animation.size[1] >= min_resolution
    /\ animation.size[2] < min_resolution
    /\ Exists(storage, OutputPath)

\* C7: after a return, a ResolutionTooLow or a CompressionBudgetUnreachable
\* no temporary file is on storage; after a return storage holds exactly
\* the promoted file, at the output path.
C7_NoResidualTemp ==
    (Terminated /\ error \in {"none", "ResolutionTooLow",
                              "CompressionBudgetUnreachable"})
        => /\ TempFiles(storage) = {}
           /\ pc = "returned" =>
                 storage = {[path |-> OutputPath,
                             data |-> GifData(LastCall.anim, LastCall.colors,
                                              LastCall.result, TRUE)]}

C7_Witness ==
    /\ error = "CompressionBudgetUnreachable"
    /\ Calls >= 3

\* C8 (as stated): at the end of every iteration and at every exit of the
\* search, the encoder failure included, no temporary file is on storage.
C8_TempScopedToIteration ==
    pc \in {"loop", "returned", "raised"} => TempFiles(storage) = {}

\* C9: an encoder failure ends the search in a raise: the failed call is
\* the only failed one and the last one, every call before it was over the
\* budget, no step follows, and nothing has been promoted to the output
\* path.
C9_EncoderFailureAborts ==
    /\ (\E i \in 1..Calls : encoder_calls[i].raised)
          => /\ pc = "raised"
             /\ error = "EncodingFailure"
             /\ LastCall.raised
             /\ \A i \in 1..(Calls - 1) : OverBudget(encoder_calls[i])
             /\ ~ENABLED Next
             /\ Exists(storage, OutputPath)
                    => Read(storage, OutputPath) = StaleGif
    /\ error = "EncodingFailure" => Calls >= 1 /\ LastCall.raised

C9_Witness ==
    /\ error = "EncodingFailure"
    /\ Calls >= 2
    /\ Calls < FrameCount

\* C10: the durations returned by reduce_frames add up to the sum of the
\* input durations, for every factor >= 1.
C10_DurationConservation ==
    pc = "reduced" =>
        SumSeq(processed_durations) = SumSeq(animation.durations)

C10_Witness ==
    /\ pc = "reduced"
    /\ skip_factor > 1
    /\ FrameCount > skip_factor
    /\ FrameCount % skip_factor # 0
    /\ Len(processed_durations) < FrameCount

\* the least m with n <= m * k
CeilDiv(n, k) == CHOOSE m \in 0..n : (m - 1) * k < n /\ n <= m * k

\* C11: for n >= 1 frames with n durations and a factor k >= 1,
\* reduce_frames returns ceil(n / k) frames and as many durations.
C11_FrameCountLaw ==
    (pc = "reduced" /\ FrameCount >= 1) =>
        /\ Len(processed_frames) = CeilDiv(FrameCount, skip_factor)
        /\ Len(processed_durations) = Len(processed_frames)

C11_Witness ==
    /\ pc = "reduced"
    /\ FrameCount = 3
    /\ skip_factor = 2
    /\ Len(processed_frames) = 2

\* C12: output frame j of reduce_frames is input frame j*k and output
\* duration j is the sum of the input durations at j*k .. min((j+1)*k, n)-1;
\* ten frames of 40 ms with k = 2 give five frames of 80 ms.
C12_GroupSums ==
    pc = "reduced" =>
        LET n == FrameCount
            k == skip_factor
            lo(j) == j * k
            hi(j) == IF (j + 1) * k <= n THEN (j + 1) * k ELSE n
        IN  /\ \A j \in 0..(Len(processed_frames) - 1) :
                  processed_frames[j + 1] = animation.frames[j * k + 1]
            /\ \A j \in 0..(Len(processed_durations) - 1) :
                  processed_durations[j + 1] =
                      SumSeq([x \in 1..(hi(j) - lo(j)) |->
                                 animation.durations[lo(j) + x]])
            /\ (/\ n = 10
                /\ k = 2
                /\ \A i \in 1..n : animation.durations[i] = 40)
                  => /\ Len(processed_frames) = 5
                     /\ processed_durations = <<80, 80, 80, 80, 80>>

C12_Witness ==
    /\ pc = "reduced"
    /\ FrameCount = 10
    /\ skip_factor = 2
    /\ processed_durations = <<80, 80, 80, 80, 80>>
    /\ processed_frames[5] = animation.frames[9]

\* C13: reduce_frames with factor 1 returns its input, so the first
\* candidate of the search, which the controller builds from the source
\* lists without calling reduce_frames, has the frames and durations that
\* reduce_frames(frames, durations, 1) returns.
C13_IdentityAtOne ==
    LET r == reduce_frames(animation.frames, animation.durations, 1)
    IN  /\ r.reduced_frames = animation.frames
        /\ r.reduced_durations = animation.durations
        /\ Calls >= 1 =>
              /\ encoder_calls[1].skip_factor = 1
              /\ encoder_calls[1].anim.frames = r.reduced_frames
              /\ encoder_calls[1].anim.durations = r.reduced_durations

C13_Witness ==
    /\ Calls >= 1
    /\ FrameCount >= 2
    /\ encoder_calls[1].anim.frames = animation.frames
    /\ animation.durations[1] # animation.durations[2]

PaletteGrid == {64, 96, 128, 160, 192, 224, 256}
Evaluated(k, c) ==
    \E i \in 1..Calls :
        /\ encoder_calls[i].skip_factor = k
        /\ encoder_calls[i].colors = c
        /\ OverBudget(encoder_calls[i])

\* C15 (as stated): CompressionBudgetUnreachable is raised only after every
\* pair (skip_factor, palette_size) of 1..frame_count x {64, 96, .., 256}
\* has been evaluated and rejected.
C15_ExhaustiveGrid ==
    error = "CompressionBudgetUnreachable" =>
        \A k \in 1..FrameCount : \A c \in PaletteGrid : Evaluated(k, c)

\* C15 (amended): CompressionBudgetUnreachable is raised only after every
\* pair of the schedule, (i, max(64, 256 - 32*(i-1))) for i in
\* 1..frame_count, has been evaluated and rejected, and no other pair of
\* the grid has been evaluated.
C15_ExhaustiveSchedule ==
    error = "CompressionBudgetUnreachable" =>
        /\ \A i \in 1..FrameCount : Evaluated(i, ScheduledColors(i))
        /\ \A k \in 1..FrameCount : \A c \in PaletteGrid :
              Evaluated(k, c) => c = ScheduledColors(k)
        /\ Calls = FrameCount

C15_Witness ==
    /\ error = "CompressionBudgetUnreachable"
    /\ FrameCount = 3
    /\ Evaluated(3, 192)
    /\ ~Evaluated(3, 64)

\* C16 (as stated): when the search fails with
\* CompressionBudgetUnreachable on a source of at least one frame, the
\* candidate (frame_count, 64) was evaluated.
C16_MostDegradedEvaluated ==
    (error = "CompressionBudgetUnreachable" /\ FrameCount >= 1) =>
        \E i \in 1..Calls :
            /\ encoder_calls[i].skip_factor = FrameCount
            /\ encoder_calls[i].colors = 64

\* C16 (amended): when the search fails with CompressionBudgetUnreachable
\* on a source of at least one frame, the last candidate evaluated has
\* skip_factor = frame_count and palette_size
\* max(64, 256 - 32*(frame_count-1)), which is 64 exactly when
\* frame_count >= 7.
C16_LastCandidate ==
    (error = "CompressionBudgetUnreachable" /\ FrameCount >= 1) =>
        /\ LastCall.skip_factor = FrameCount
        /\ LastCall.colors = ScheduledColors(FrameCount)
        /\ (LastCall.colors = 64) <=> (FrameCount >= 7)
        /\ \A i \in 1..Calls :
              encoder_calls[i].skip_factor = FrameCount => i = Calls

C16_Witness ==
    /\ error = "CompressionBudgetUnreachable"
    /\ FrameCount = 7
    /\ LastCall.colors = 64
    /\ encoder_calls[6].colors = 96

\* C19: at most one temporary file exists at any time of a search, and
\* none exists when the controller is about to build the next candidate.
C19_OneTempAtATime ==
    /\ Cardinality(TempFiles(storage)) <= 1
    /\ pc = "loop" => TempFiles(storage) = {}

C19_Witness ==
    /\ pc = "encoded"
    /\ Calls >= 2
    /\ Cardinality(TempFiles(storage)) = 1
    /\ \A i \in 1..(Calls - 1) : ~Exists(storage, encoder_calls[i].path)

\* C14: in every paletted frame of a candidate the index of a pixel is
\* N-1 exactly when the alpha of that pixel in the source frame is below
\* the threshold; with every alpha 255 no pixel has index N-1, with every
\* alpha <= 5 and threshold 10 every pixel has it.
C14_TransparencyIndex ==
    \A i \in 1..Len(pal_frames) :
        LET src == heap[compressed_anim.frames[i].id]
            out == heap[pal_frames[i]]
        IN  /\ out.mode = "P"
            /\ Len(out.p) = Len(src.a)
            /\ \A j \in 1..Len(src.a) :
                  (out.p[j] = colors - 1) <=> (src.a[j] < alpha_threshold)
            /\ (\A j \in 1..Len(src.a) : src.a[j] = 255)
                  => \A j \in 1..Len(out.p) : out.p[j] # colors - 1
            /\ (alpha_threshold = 10 /\ \A j \in 1..Len(src.a) : src.a[j] <= 5)
                  => \A j \in 1..Len(out.p) : out.p[j] = colors - 1

C14_Witness ==
    /\ pc = "gif_done"
    /\ Len(pal_frames) = 2
    /\ alpha_threshold = 10
    /\ heap[compressed_anim.frames[2].id].a = <<5, 10>>
    /\ heap[pal_frames[2]].p[1] = colors - 1
    /\ heap[pal_frames[2]].p[2] # colors - 1
    /\ heap[pal_frames[1]].p[1] # colors - 1

\* C20: no step of the search changes the source Animation (frames,
\* durations, loop, size), and the pixels of the source frames are at all
\* times those the decoder produced, also after the first candidate, whose
\* frame and duration lists are the source's own.
C20_SourceReadOnly ==
    /\ [][animation' = animation]_vars
    /\ [](/\ Len(heap) = FrameCount
          /\ \A i \in 1..FrameCount :
                /\ animation.frames[i].id = i
                /\ heap[i] = SourceImage(i))
    /\ [](Calls >= 1 =>
             /\ encoder_calls[1].anim.frames = animation.frames
             /\ encoder_calls[1].anim.durations = animation.durations)

C20_Witness ==
    /\ pc = "returned"
    /\ Calls >= 3
    /\ FrameCount >= 4
    /\ heap[1].mode = "RGBA"
    /\ heap[1].a = <<5, 10>>

\* C17 (as stated): in a run with -s 512 and no stage skipped, the GIF
\* tool, started on the 512x512 animation the resize stage wrote, runs its
\* size search (at least one candidate is encoded) and does not end in
\* ResolutionTooLow; when the search returned, the run completes with the
\* GIF at the output path.
C17_SmallSizeExample ==
    (/\ args.size = 512
     /\ ~args.skip_outline /\ ~args.skip_resize /\ ~args.skip_gif
     /\ stage = "gif"
     /\ Terminated
     /\ animation.size = <<512, 512>>)
        => /\ error # "ResolutionTooLow"
           /\ Calls >= 1

StageOrder(name) ==
    CASE name = "outline" -> 1
      [] name = "resize" -> 2
      [] name = "gif" -> 3

StageEnabled(name) ==
    CASE name = "outline" -> ~args.skip_outline
      [] name = "resize" -> ~args.skip_resize
      [] name = "gif" -> ~args.skip_gif

\* C18: the stages that ran are enabled ones, in the order outline, resize,
\* GIF; the first read the input file and every other one read the output
\* of the one before it, which had exited with 0; after a stage exited
\* non-zero the orchestrator has exited with status 1, no further stage was
\* started and the run is not complete; a complete run ran every enabled
\* stage with exit code 0.
C18_StagesInOrder ==
    /\ \A i \in 1..Len(stage_runs) :
          /\ StageEnabled(stage_runs[i].name)
          /\ i = 1 => stage_runs[i].input = InputPath
          /\ i > 1 =>
                /\ StageOrder(stage_runs[i - 1].name)
                       < StageOrder(stage_runs[i].name)
                /\ stage_runs[i - 1].rc = 0
                /\ stage_runs[i].input = stage_runs[i - 1].output
          /\ stage_runs[i].rc = 1 =>
                /\ i = Len(stage_runs)
                /\ stage = "exited"
                /\ exit_status = 1
    /\ stage = "exited" => exit_status = 1
    /\ stage = "complete" =>
          /\ exit_status = 0
          /\ \A i \in 1..Len(stage_runs) : stage_runs[i].rc = 0
          /\ \A name \in {"outline", "resize", "gif"} :
                StageEnabled(name) =>
                    \E i \in 1..Len(stage_runs) : stage_runs[i].name = name

C18_Witness ==
    /\ stage = "exited"
    /\ Len(stage_runs) = 3
    /\ stage_runs[1].name = "outline"
    /\ stage_runs[2].name = "resize"
    /\ stage_runs[3].name = "gif"
    /\ stage_runs[3].rc = 1
    /\ stage_runs[3].input = ResizedPath

\* C21: for a source with len(frames) = len(durations) >= 1 whose frames
\* all have the canvas size, every candidate handed to the encoder has as
\* many durations as frames, at least one frame, the loop count of the
\* source and the canvas size of the source, whatever skip_factor the
\* schedule reached.
C21_CandidateInvariant ==
    (/\ Len(animation.frames) = Len(animation.durations)
     /\ Len(animation.frames) >= 1
     /\ \A j \in 1..Len(animation.frames) :
           animation.frames[j].size = animation.size)
        => \A i \in 1..Calls :
              LET c == encoder_calls[i].anim
              IN  /\ Len(c.frames) = Len(c.durations)
                  /\ Len(c.frames) >= 1
                  /\ c.loop = animation.loop
                  /\ c.size = animation.size
                  /\ \A j \in 1..Len(c.frames) : c.frames[j].size = c.size

C21_Witness ==
    /\ Calls = 3
    /\ FrameCount = 5
    /\ animation.loop = 2
    /\ Len(encoder_calls[2].anim.frames) = 3
    /\ Len(encoder_calls[3].anim.durations) = 2
    /\ encoder_calls[3].anim.loop = 2
    /\ encoder_calls[3].anim.size = animation.size

OutputFiles == {f \in storage : f.path = OutputPath}

\* C22: the only step of the search that creates or changes the file at
\* the output path is the acceptance of a candidate within the budget,
\* which puts that candidate's encoded bytes there and returns; so on every
\* failure (ResolutionTooLow, CompressionBudgetUnreachable, encoder error)
\* the output path holds what it held before the call, nothing or the old
\* file.
C22_OutputOnlyOnAccept ==
    /\ [][OutputFiles' # OutputFiles =>
             /\ pc = "encoded"
             /\ pc' = "returned"
             /\ size <= target_size_bytes
             /\ OutputFiles' =
                   {[path |-> OutputPath,
                     data |-> GifData(LastCall.anim, LastCall.colors,
                                      LastCall.result, TRUE)]}]_vars
    /\ [](pc = "raised" =>
             /\ error \in {"ResolutionTooLow", "CompressionBudgetUnreachable",
                           "EncodingFailure"}
             /\ OutputFiles \subseteq {[path |-> OutputPath,
                                        data |-> StaleGif]})

C22_Witness ==
    /\ pc = "raised"
    /\ error = "EncodingFailure"
    /\ Calls >= 2
    /\ OutputFiles = {[path |-> OutputPath, data |-> StaleGif]}
    /\ TempFiles(storage) # {}

\* C25: at all times of the search palette_size is one of 256, 224, 192,
\* 160, 128, 96, 64; every candidate evaluated has
\* 1 <= skip_factor <= frame_count; from one candidate to the next
\* skip_factor grows and palette_size does not; and the loop is only left
\* with skip_factor > frame_count, never because palette_size < 64.
C25_ScheduleBounds ==
    /\ colors \in {256, 224, 192, 160, 128, 96, 64}
    /\ \A i \in 1..Calls :
          /\ 1 <= encoder_calls[i].skip_factor
          /\ encoder_calls[i].skip_factor <= Len(animation.frames)
          /\ encoder_calls[i].colors \in {256, 224, 192, 160, 128, 96, 64}
    /\ \A i \in 1..(Calls - 1) :
          /\ encoder_calls[i + 1].skip_factor > encoder_calls[i].skip_factor
          /\ encoder_calls[i + 1].colors <= encoder_calls[i].colors
    /\ (pc = "loop" /\ ~(skip_factor <= Len(animation.frames) /\ colors >= 64))
          => skip_factor > Len(animation.frames)
    /\ error = "CompressionBudgetUnreachable" =>
          /\ skip_factor > Len(animation.frames)
          /\ colors >= 64

C25_Witness ==
    /\ error = "CompressionBudgetUnreachable"
    /\ FrameCount = 8
    /\ skip_factor = 9
    /\ colors = 64
    /\ encoder_calls[7].colors = 64
    /\ encoder_calls[8].colors = 64
    /\ encoder_calls[6].colors = 96

\* C23 (as stated): a search that was handed an animation of zero frames
\* and passed the resolution check ends with the EmptyAnimation error, not
\* with CompressionBudgetUnreachable.
C23_EmptyAnimationReported ==
    (/\ Len(animation.frames) = 0
     /\ pc = "raised"
     /\ error # "ResolutionTooLow")
        => /\ error = "EmptyAnimation"
           /\ error # "CompressionBudgetUnreachable"

\* C24: the name of a temporary file is determined by the output path and
\* the candidate's (skip_factor, palette_size) alone.  With two searches
\* running on the same output path: the candidates of one search have
\* pairwise different names; a candidate of one and a candidate of the
\* other have the same name exactly when they have the same
\* (skip_factor, palette_size); and the i-th candidate of one has the
\* name of the i-th candidate of the other.  (The interleaving in which one
\* search promotes or deletes the file the other wrote is C24_Witness.)
C24_TempNames ==
    LET mine == encoder_calls
        theirs == peer.encoder_calls
    IN  /\ \A i \in 1..Len(mine) : \A j \in 1..Len(mine) :
              i # j => mine[i].path # mine[j].path
        /\ \A i \in 1..Len(theirs) : \A j \in 1..Len(theirs) :
              i # j => theirs[i].path # theirs[j].path
        /\ \A i \in 1..Len(mine) : \A j \in 1..Len(theirs) :
              (mine[i].path = theirs[j].path)
                 <=> /\ mine[i].skip_factor = theirs[j].skip_factor
                     /\ mine[i].colors = theirs[j].colors
        /\ \A i \in 1..Len(mine) :
              i <= Len(theirs) => mine[i].path = theirs[i].path

\* the first search returned having promoted the file the second one wrote
\* for its own, different animation and found too large; the second then
\* failed to delete it
C24_Witness ==
    /\ pc = "returned"
    /\ Calls = 1
    /\ Len(peer.encoder_calls) = 1
    /\ peer.animation # animation
    /\ LastCall.path = peer.encoder_calls[1].path
    /\ OutputFiles =
          {[path |-> OutputPath,
            data |-> GifData(peer.encoder_calls[1].anim, 256,
                             peer.encoder_calls[1].result, TRUE)]}
    /\ Read(storage, OutputPath)
          # GifData(LastCall.anim, 256, LastCall.result, TRUE)
    /\ peer.encoder_calls[1].result > peer.target_size_bytes
    /\ peer.pc = "raised"
    /\ peer.error = "FileNotFoundError"

====
